---- MODULE Spec2Model ----
(***************************************************************************)
(* Model of the NYC Datasets Dashboard API (src/main.py, src/database.py). *)
(*                                                                         *)
(* The store is the table nyc_datasets on PostgreSQL.  A request acquires  *)
(* a session (get_db), runs the handler's queries, shapes the rows into    *)
(* the response and releases the session in get_db's finally block.        *)
(*                                                                         *)
(* Representation.                                                         *)
(*   - A nullable column value is a record [some, v]: some = FALSE is SQL  *)
(*     NULL / Python None.                                                 *)
(*   - Text is a sequence of one-character strings.                        *)
(*   - The order PostgreSQL gives to rows that tie on the ORDER BY key,    *)
(*     and to the rows of a query without ORDER BY, is unspecified: a      *)
(*     query yields any order satisfying its ORDER BY clause.              *)
(*   - ORDER BY ... DESC on PostgreSQL places NULL first.                  *)
(*   - avg_weekly_views is carried in hundredths (round(x, 2) * 100).      *)
(*   - The columns attribution, type, data_updated_at and domain_tags are  *)
(*     read by no handler and are left out of the rows.                    *)
(***************************************************************************)
EXTENDS Integers, Sequences, FiniteSets, TLC

VARIABLES
    store,        \* the rows of nyc_datasets
    pc,           \* position of the request: idle, handler, shape, finally, done
    call,         \* endpoint and query parameters of the request
    sessionOpen,  \* the session yielded by get_db is open
    queries,      \* queries executed by the handler of this request
    results,      \* rows (or scalars) fetched so far by the handler
    response,     \* body returned to the client
    error,        \* exception raised by the handler, "none" if none
    prev          \* the preceding call with its outcome, kept by the client

vars == <<store, pc, call, sessionOpen, queries, results, response, error, prev>>

----------------------------------------------------------------------------
(* Bounds *)

MaxRecords == 3

----------------------------------------------------------------------------
(* Program constants *)

TopDefaultLimit == 10
SearchDefaultLimit == 50
AgencyLimit == 15
EngagementLimit == 20
NameMaxChars == 50
DescriptionMaxChars == 200
MinYear == 2000

----------------------------------------------------------------------------
(* Nullable values and text *)

Null == [some |-> FALSE, v |-> 0]
NullText == [some |-> FALSE, v |-> <<>>]
Val(x) == [some |-> TRUE, v |-> x]

Ellipsis == <<".", ".", ".">>

\* A text of L characters whose characters alternate, so that a prefix is
\* distinguishable from the whole only by its length and its end.
NameOfLen(L) == [i \in 1..L |-> IF i % 2 = 1 THEN "a" ELSE "b"]

Lower(c) == IF c = "A" THEN "a" ELSE IF c = "B" THEN "b" ELSE c

Min(a, b) == IF a <= b THEN a ELSE b

\* s[:n] of Python for n >= 0
Prefix(s, n) == SubSeq(s, 1, Min(n, Len(s)))

\* name ILIKE '%q%' for a pattern q without wildcard characters
ILike(text, q) ==
    \E off \in 0..(Len(text) - Len(q)) :
        \A i \in 1..Len(q) : Lower(text[off + i]) = Lower(q[i])

\* Python's `x or 0` on a nullable integer
OrWrongDefault(x) == IF x.some THEN x.v ELSE 1
OrZero(x) == IF x.some THEN x.v ELSE 0

----------------------------------------------------------------------------
(* Rows of the table *)

Date(y, m, d) == Val([year |-> y, month |-> m, day |-> d])
NullDate == [some |-> FALSE, v |-> [year |-> 0, month |-> 0, day |-> 0]]

Row(id, name, descr, week, month, total, downloads, pub, cat, agency, link) ==
    [id |-> id, name |-> name, description |-> descr,
     page_views_last_week |-> week, page_views_last_month |-> month,
     page_views_total |-> total, download_count |-> downloads,
     publication_date |-> pub, domain_category |-> cat,
     dataset_information_agency |-> agency, link |-> link]

CatA == <<"c", "1">>
CatB == <<"c", "2">>
AgA == <<"a", "1">>
AgB == <<"a", "2">>

\* The rows a store is drawn from: every column is nullable but id, and the
\* pool holds ties on page_views_total, NULL in every nullable column, names
\* of 50 and of 51 characters, a description of 201 characters, an empty
\* category and publication years on both sides of 2000.
Pool ==
    { Row("d1", Val(NameOfLen(NameMaxChars + 1)), Val(NameOfLen(DescriptionMaxChars + 1)),
          Val(1), Val(2), Val(2), Val(3), Date(2001, 2, 3), Val(CatA), Val(AgA), Val(<<"l">>)),
      Row("d2", Val(NameOfLen(NameMaxChars)), Val(<<"b">>),
          Null, Null, Val(2), Null, Date(1999, 12, 31), Val(CatA), Val(AgB), NullText),
      Row("d3", NullText, NullText,
          Val(2), Val(2), Val(1), Val(0), NullDate, NullText, NullText, NullText),
      Row("d4", Val(<<"A", "b">>), Val(<<>>),
          Val(0), Val(1), Null, Val(1), Date(2000, 1, 1), Val(<<>>), Val(AgA), Val(<<"l">>)),
      Row("d5", Val(<<"b", "a">>), Val(NameOfLen(DescriptionMaxChars)),
          Val(1), Val(1), Val(0), Val(3), Date(2001, 11, 30), Val(CatB), Val(AgB), NullText),
      Row("d6", Val(<<"B", "A", "b">>), NullText,
          Null, Val(3), Val(3), Val(3), Date(2000, 6, 15), Val(CatB), NullText, Val(<<"l">>)) }

Stores == {S \in SUBSET Pool : Cardinality(S) <= MaxRecords}

----------------------------------------------------------------------------
(* What the database computes *)

\* The orders in which the rows of the set S can be returned
Perms(S) ==
    {f \in [1..Cardinality(S) -> S] : \A i, j \in 1..Cardinality(S) : i # j => f[i] # f[j]}

\* a may come before b under ORDER BY key DESC: PostgreSQL sorts NULL as
\* larger than every value, so NULL comes first
MayPrecedeDesc(a, b) == ~a.some \/ (b.some /\ a.v >= b.v)

\* ORDER BY col DESC over the rows S: every order of S the clause allows
OrderByDesc(S, col) ==
    {f \in Perms(S) :
        \A i, j \in 1..Cardinality(S) : i < j => MayPrecedeDesc(f[i][col], f[j][col])}

\* LIMIT n, n >= 0
Limit(rows, n) == Prefix(rows, n)

\* count(column): the rows whose column is not NULL
CountCol(S, col) == Cardinality({r \in S : r[col].some})

\* sum(column): NULL over no non-NULL value
SumCol(S, col) ==
    LET T == {r \in S : r[col].some}
        sum[U \in SUBSET T] ==
            IF U = {} THEN 0
            ELSE LET x == CHOOSE x \in U : TRUE IN x[col].v + sum[U \ {x}]
    IN  IF T = {} THEN Null ELSE Val(sum[T])

\* avg(column): NULL over no non-NULL value, else the exact quotient sum / n
AvgCol(S, col) ==
    IF CountCol(S, col) = 0 THEN [some |-> FALSE, v |-> [sum |-> 0, n |-> 1]]
    ELSE Val([sum |-> SumCol(S, col).v, n |-> CountCol(S, col)])

\* db.query(Dataset).order_by(desc(Dataset.page_views_total)).limit(limit).all()
TopViewedQuery(S, limit) == {Limit(f, limit) : f \in OrderByDesc(S, "page_views_total")}

\* db.query(Dataset).order_by(desc(Dataset.download_count)).limit(limit).all()
TopDownloadedQuery(S, limit) == {Limit(f, limit) : f \in OrderByDesc(S, "download_count")}

\* GROUP BY col over the rows whose col is not NULL, with count(id),
\* sum(page_views_total), sum(download_count)
GroupRows(S, col) ==
    {[key |-> k,
      dataset_count |-> Cardinality({r \in S : r[col] = Val(k)}),
      total_views |-> SumCol({r \in S : r[col] = Val(k)}, "page_views_total"),
      total_downloads |-> SumCol({r \in S : r[col] = Val(k)}, "download_count")] :
        k \in {r[col].v : r \in {x \in S : x[col].some}}}

ByAgencyQuery(S) ==
    {Limit(f, AgencyLimit) : f \in OrderByDesc(GroupRows(S, "dataset_information_agency"), "total_views")}

ByCategoryQuery(S) == OrderByDesc(GroupRows(S, "domain_category"), "total_views")

\* GROUP BY extract(year from publication_date) ORDER BY year
TimelineQuery(S) ==
    LET dated == {r \in S : r.publication_date.some}
        groups == {[year |-> y,
                    count |-> Cardinality({r \in dated : r.publication_date.v.year = y})] :
                        y \in {r.publication_date.v.year : r \in dated}}
    IN  {f \in Perms(groups) :
            \A i, j \in 1..Cardinality(groups) : i < j => f[i].year <= f[j].year}

\* WHERE page_views_total > 0 ORDER BY page_views_total DESC LIMIT 20
EngagementQuery(S) ==
    {Limit(f, EngagementLimit) :
        f \in OrderByDesc({r \in S : r.page_views_total.some /\ r.page_views_total.v > 0},
                         "page_views_total")}

\* The filters search_datasets adds for its non-empty parameters
SearchFilter(S, q, category, agency) ==
    {r \in S :
        /\ q # <<>> => (r.name.some /\ ILike(r.name.v, q))
        /\ category # <<>> => r.domain_category = Val(category)
        /\ agency # <<>> => r.dataset_information_agency = Val(agency)}

SearchQuery(S, q, category, agency, limit) ==
    {Limit(f, limit) : f \in OrderByDesc(SearchFilter(S, q, category, agency), "page_views_total")}

\* SELECT DISTINCT col WHERE col IS NOT NULL, in any order
DistinctQuery(S, col) == Perms({r[col].v : r \in {x \in S : x[col].some}})

----------------------------------------------------------------------------
(* How the handlers shape rows into the response *)

Digit == <<"0", "1", "2", "3", "4", "5", "6", "7", "8", "9">>

Pow10(k) == IF k = 0 THEN 1 ELSE IF k = 1 THEN 10 ELSE IF k = 2 THEN 100 ELSE 1000

\* n written in w decimal digits, zero-padded
Digits(n, w) == [i \in 1..w |-> Digit[((n \div Pow10(w - i)) % 10) + 1]]

\* datetime.isoformat() of a timestamp at midnight: YYYY-MM-DDT00:00:00
IsoFormat(d) ==
    Digits(d.year, 4) \o <<"-">> \o Digits(d.month, 2) \o <<"-">> \o Digits(d.day, 2)
        \o <<"T", "0", "0", ":", "0", "0", ":", "0", "0">>

\* round(float(avg or 0), 2), in hundredths; a tie goes to the even neighbour
RoundAvg(avg) ==
    IF ~avg.some THEN 0
    ELSE LET num == avg.v.sum * 100
             q == num \div avg.v.n
             rem == num % avg.v.n
         IN  IF 2 * rem < avg.v.n THEN q
             ELSE IF 2 * rem > avg.v.n THEN q + 1
             ELSE IF q % 2 = 0 THEN q ELSE q + 1

\* get_overview_stats: the dictionary built from the four scalars
OverviewShape(scalars) ==
    <<[total_datasets |-> scalars[1].v,
       total_page_views |-> OrZero(scalars[2]),
       total_downloads |-> OrZero(scalars[3]),
       avg_weekly_views |-> RoundAvg(scalars[4])]>>

\* get_top_viewed_datasets, get_top_downloaded_datasets
TopShape(rows) ==
    [i \in 1..Len(rows) |->
        [id |-> rows[i].id, name |-> rows[i].name,
         page_views_total |-> rows[i].page_views_total,
         download_count |-> rows[i].download_count,
         agency |-> rows[i].dataset_information_agency,
         category |-> rows[i].domain_category]]

\* get_analytics_by_agency, get_analytics_by_category
GroupShape(rows) ==
    [i \in 1..Len(rows) |->
        [key |-> rows[i].key, dataset_count |-> rows[i].dataset_count,
         total_views |-> OrZero(rows[i].total_views),
         total_downloads |-> OrZero(rows[i].total_downloads)]]

\* get_publication_timeline: `if r.year and r.year >= 2000`
YearUnfiltered(r) == r.year # 0
YearKept(r) == r.year # 0 /\ r.year >= MinYear

TimelineShape(rows) == SelectSeq(rows, YearKept)

\* r.name[:50] + "..." if len(r.name) > 50 else r.name, for a name that is present
TruncateNameOffByOne(name) ==
    IF Len(name) >= NameMaxChars THEN Prefix(name, NameMaxChars) \o Ellipsis ELSE name
TruncateName(name) ==
    IF Len(name) > NameMaxChars THEN Prefix(name, NameMaxChars) \o Ellipsis ELSE name

\* len(r.name) raises TypeError when r.name is None
EngagementRaises(rows) == \E i \in 1..Len(rows) : ~rows[i].name.some

\* get_engagement_metrics
EngagementShape(rows) ==
    [i \in 1..Len(rows) |->
        [name |-> TruncateName(rows[i].name.v),
         weekly_views |-> OrZero(rows[i].page_views_last_week),
         monthly_views |-> OrZero(rows[i].page_views_last_month),
         total_views |-> OrZero(rows[i].page_views_total),
         downloads |-> OrZero(rows[i].download_count),
         category |-> rows[i].domain_category]]

\* d.description[:200] + "..." if d.description and len(d.description) > 200
\* else d.description
TruncateDescription(descr) ==
    IF descr.some /\ Len(descr.v) > DescriptionMaxChars
    THEN Val(Prefix(descr.v, DescriptionMaxChars) \o Ellipsis)
    ELSE descr

\* search_datasets
SearchShape(rows) ==
    [i \in 1..Len(rows) |->
        [id |-> rows[i].id, name |-> rows[i].name,
         description |-> TruncateDescription(rows[i].description),
         agency |-> rows[i].dataset_information_agency,
         category |-> rows[i].domain_category,
         page_views_total |-> rows[i].page_views_total,
         download_count |-> rows[i].download_count,
         publication_date |->
            IF rows[i].publication_date.some
            THEN Val(IsoFormat(rows[i].publication_date.v)) ELSE NullText,
         link |-> rows[i].link]]

\* get_categories, get_agencies: `[c[0] for c in categories if c[0]]`
NonEmpty(t) == t # <<>>
FilterShape(rows) == SelectSeq(rows, NonEmpty)

----------------------------------------------------------------------------
(* Requests *)

Limits == {-1, 0, 1, 2, TopDefaultLimit, SearchDefaultLimit}
Patterns == {<<>>, <<"a", "B">>}
CategoryParams == {<<>>, CatA}
AgencyParams == {<<>>, AgB}

Call(endpoint, q, category, agency, limit) ==
    [endpoint |-> endpoint, q |-> q, category |-> category, agency |-> agency,
     limit |-> limit]

\* The endpoints without parameters
PlainEndpoints ==
    {"overview", "by-agency", "by-category", "publication-timeline",
     "engagement-metrics", "categories", "agencies"}

Calls ==
    {Call(e, <<>>, <<>>, <<>>, 0) : e \in PlainEndpoints}
    \cup {Call(e, <<>>, <<>>, <<>>, n) : e \in {"top-viewed", "top-downloaded"}, n \in Limits}
    \cup {Call("search", q, c, a, n) :
            q \in Patterns, c \in CategoryParams, a \in AgencyParams, n \in Limits}

NoCall == Call("none", <<>>, <<>>, <<>>, 0)
NoPrev == [valid |-> FALSE, call |-> NoCall, error |-> "none", response |-> <<>>]

TakesLimit(c) == c.endpoint \in {"top-viewed", "top-downloaded", "search"}

\* The row sequences the single query of a handler can return
QueryResult(c, S) ==
    CASE c.endpoint = "top-viewed" -> TopViewedQuery(S, c.limit)
      [] c.endpoint = "top-downloaded" -> TopDownloadedQuery(S, c.limit)
      [] c.endpoint = "by-agency" -> ByAgencyQuery(S)
      [] c.endpoint = "by-category" -> ByCategoryQuery(S)
      [] c.endpoint = "publication-timeline" -> TimelineQuery(S)
      [] c.endpoint = "engagement-metrics" -> EngagementQuery(S)
      [] c.endpoint = "search" -> SearchQuery(S, c.q, c.category, c.agency, c.limit)
      [] c.endpoint = "categories" -> DistinctQuery(S, "domain_category")
      [] c.endpoint = "agencies" -> DistinctQuery(S, "dataset_information_agency")

\* The k-th scalar query of get_overview_stats
OverviewScalar(k, S) ==
    CASE k = 1 -> Val(Cardinality(S))
      [] k = 2 -> SumCol(S, "page_views_total")
      [] k = 3 -> SumCol(S, "download_count")
      [] k = 4 -> AvgCol(S, "page_views_last_week")

\* Queries a handler issues before it shapes its response
QueriesOf(c) == IF c.endpoint = "overview" THEN 4 ELSE 1

ShapeOf(c, rows) ==
    CASE c.endpoint = "overview" -> OverviewShape(rows)
      [] c.endpoint \in {"top-viewed", "top-downloaded"} -> TopShape(rows)
      [] c.endpoint \in {"by-agency", "by-category"} -> GroupShape(rows)
      [] c.endpoint = "publication-timeline" -> TimelineShape(rows)
      [] c.endpoint = "engagement-metrics" -> EngagementShape(rows)
      [] c.endpoint = "search" -> SearchShape(rows)
      [] c.endpoint \in {"categories", "agencies"} -> FilterShape(rows)

ShapeRaisesFor(c, rows) == c.endpoint = "engagement-metrics" /\ EngagementRaises(rows)

----------------------------------------------------------------------------
(* The state machine *)

Init ==
    /\ store \in Stores
    /\ pc = "idle"
    /\ call = NoCall
    /\ sessionOpen = FALSE
    /\ queries = 0
    /\ results = <<>>
    /\ response = <<>>
    /\ error = "none"
    /\ prev = NoPrev

\* get_db up to its yield: a session is opened and handed to the handler
Begin(c) ==
    /\ pc' = "handler"
    /\ call' = c
    /\ sessionOpen' = TRUE
    /\ queries' = 0
    /\ results' = <<>>
    /\ response' = <<>>
    /\ error' = "none"
    /\ store' = store

\* A request arrives
Receive ==
    /\ pc = "idle"
    /\ \E c \in Calls : Begin(c)
    /\ UNCHANGED prev

\* The handler runs its next query and keeps the rows
FetchRows ==
    /\ pc = "handler"
    /\ ~(TakesLimit(call) /\ call.limit < 0)
    /\ queries' = queries + 1
    /\ IF call.endpoint = "overview"
       THEN results' = Append(results, OverviewScalar(queries + 1, store))
       ELSE \E rows \in QueryResult(call, store) : results' = rows
    /\ pc' = IF queries + 1 = QueriesOf(call) THEN "shape" ELSE "handler"
    /\ UNCHANGED <<call, sessionOpen, response, error, prev>>

ExecuteQueryAndDelete ==
    /\ FetchRows
    /\ store' = {r \in store : r.page_views_total.some}

\* The queries are SELECT statements and the session never commits
ExecuteQuery ==
    /\ FetchRows
    /\ store' = store

\* The database rejects the query: LIMIT must not be negative
QueryRejected ==
    /\ pc = "handler"
    /\ TakesLimit(call) /\ call.limit < 0
    /\ queries' = queries + 1
    /\ error' = "DataError"
    /\ pc' = "finally"
    /\ UNCHANGED <<store, call, sessionOpen, results, response, prev>>

\* The database is unreachable when the query is sent
QueryFails ==
    /\ pc = "handler"
    /\ queries' = queries + 1
    /\ error' = "OperationalError"
    /\ pc' = "finally"
    /\ UNCHANGED <<store, call, sessionOpen, results, response, prev>>

\* The handler builds its return value from the rows
Shape ==
    /\ pc = "shape"
    /\ ~ShapeRaisesFor(call, results)
    /\ response' = ShapeOf(call, results)
    /\ pc' = "finally"
    /\ UNCHANGED <<store, call, sessionOpen, queries, results, error, prev>>

\* The handler raises while it builds its return value
ShapeRaises ==
    /\ pc = "shape"
    /\ ShapeRaisesFor(call, results)
    /\ error' = "TypeError"
    /\ pc' = "finally"
    /\ UNCHANGED <<store, call, sessionOpen, queries, results, response, prev>>

CloseOnSuccessOnly ==
    /\ pc = "finally"
    /\ sessionOpen' = IF error = "none" THEN FALSE ELSE sessionOpen
    /\ pc' = "done"
    /\ UNCHANGED <<store, call, queries, results, response, error, prev>>

\* get_db after its yield: `finally: db.close()`
Close ==
    /\ pc = "finally"
    /\ sessionOpen' = FALSE
    /\ pc' = "done"
    /\ UNCHANGED <<store, call, queries, results, response, error, prev>>

Outcome == [valid |-> TRUE, call |-> call, error |-> error, response |-> response]

\* The client drops the outcome and will send an unrelated request
Forget ==
    /\ pc = "done"
    /\ pc' = "idle"
    /\ prev' = NoPrev
    /\ UNCHANGED <<store, call, sessionOpen, queries, results, response, error>>

\* The client sends the same request again
Repeat ==
    /\ pc = "done"
    /\ prev' = Outcome
    /\ Begin(call)

\* After top-viewed the client sends the search without filters, same limit
Compare ==
    /\ pc = "done"
    /\ call.endpoint = "top-viewed"
    /\ prev' = Outcome
    /\ Begin(Call("search", <<>>, <<>>, <<>>, call.limit))

Next ==
    \/ Receive
    \/ ExecuteQuery
    \/ QueryRejected
    \/ QueryFails
    \/ Shape
    \/ ShapeRaises
    \/ Close
    \/ Forget
    \/ Repeat
    \/ Compare

Spec == Init /\ [][Next]_vars

\* The server runs a request it has accepted to its end
FairSpec ==
    Spec /\ WF_vars(ExecuteQuery \/ QueryRejected \/ Shape \/ ShapeRaises \/ Close)

----------------------------------------------------------------------------
(* Properties *)

Succeeded(endpoint) == pc = "done" /\ call.endpoint = endpoint /\ error = "none"

\* An absent counter counts as zero (spec, data model)
AbsentAsZero(x) == IF x.some THEN x.v ELSE 0

\* C1: top-viewed(limit=N), N >= 0, returns at most N records, and the
\* returned sequence is non-increasing in page_views_total from first to
\* last, records without page_views_total included.
TopViewedNonIncreasing ==
    Succeeded("top-viewed") =>
        /\ Len(response) <= call.limit
        /\ \A i, j \in 1..Len(response) :
              i < j => AbsentAsZero(response[i].page_views_total)
                          >= AbsentAsZero(response[j].page_views_total)

SharedFields(rec) ==
    <<rec.id, rec.name, rec.agency, rec.category, rec.page_views_total, rec.download_count>>

\* C2: search with q = "", category = "", agency = "" and limit = 50 returns
\* the same records in the same order as top-viewed(limit = 50), with equal
\* values on the fields both outputs share.
SearchUnfilteredEqualsTopViewed ==
    ( /\ Succeeded("search")
      /\ call = Call("search", <<>>, <<>>, <<>>, SearchDefaultLimit)
      /\ prev.valid /\ prev.error = "none"
      /\ prev.call = Call("top-viewed", <<>>, <<>>, <<>>, SearchDefaultLimit) )
    => /\ Len(response) = Len(prev.response)
       /\ \A i \in 1..Len(response) :
             SharedFields(response[i]) = SharedFields(prev.response[i])

\* C3: two calls of an endpoint with the same parameters and an unchanged
\* store return identical output.
RepeatedCallIdentical ==
    (pc = "done" /\ error = "none" /\ prev.valid /\ prev.error = "none" /\ prev.call = call)
    => response = prev.response

\* C4: every session acquired for a request is eventually released, also
\* when the handler raises while querying or shaping, and no request ends
\* with its session still open.
SessionAlwaysReleased ==
    /\ sessionOpen ~> ~sessionOpen
    /\ [](pc = "done" => ~sessionOpen)

SessionReleasedAfterError == pc = "done" /\ error = "TypeError" /\ ~sessionOpen

\* C5: every request executes exactly one query between acquiring and
\* releasing its session (stated here for the requests that succeed).
ExactlyOneQuery == (pc = "done" /\ error = "none") => queries = 1

\* C6: on an empty store the overview is all zeros, neither null nor an error.
OverviewZeroOnEmptyStore ==
    (pc = "done" /\ call.endpoint = "overview" /\ store = {} /\ error # "OperationalError")
    => /\ error = "none"
       /\ response = <<[total_datasets |-> 0, total_page_views |-> 0,
                        total_downloads |-> 0, avg_weekly_views |-> 0]>>

OverviewOnEmptyStoreDone == Succeeded("overview") /\ store = {}

SumCounts(entries) ==
    LET sum[k \in 0..Len(entries)] == IF k = 0 THEN 0 ELSE entries[k].count + sum[k - 1]
    IN  sum[Len(entries)]

\* C7: publication-timeline returns no year below 2000, years strictly
\* ascending (so at most one entry per year), and counts that sum to at most
\* the number of records with a publication_date.
TimelineWellFormed ==
    Succeeded("publication-timeline") =>
        /\ \A i \in 1..Len(response) : response[i].year >= 2000
        /\ \A i, j \in 1..Len(response) : i < j => response[i].year < response[j].year
        /\ SumCounts(response) <= Cardinality({r \in store : r.publication_date.some})

TimelineDropsOldYear ==
    /\ Succeeded("publication-timeline")
    /\ Len(response) >= 2
    /\ \E r \in store : r.publication_date.some /\ r.publication_date.v.year < 2000

\* C8: engagement metrics returns a name of at most 50 characters unmodified
\* and a name of 51 or more characters as its first 50 characters followed
\* by the ellipsis.
EngagementNameTruncation ==
    Succeeded("engagement-metrics") =>
        /\ Len(response) = Len(results)
        /\ \A i \in 1..Len(response) :
              LET given == results[i].name.v
                  out == response[i].name
              IN  IF Len(given) <= 50 THEN out = given
                  ELSE /\ Len(out) = 53
                       /\ \A k \in 1..50 : out[k] = given[k]
                       /\ \A k \in 51..53 : out[k] = "."

EngagementNamesAtBoundary ==
    /\ Succeeded("engagement-metrics")
    /\ \E i, j \in 1..Len(response) :
          /\ Len(results[i].name.v) = 50 /\ response[i].name = results[i].name.v
          /\ Len(results[j].name.v) = 51 /\ Len(response[j].name) = 53

\* C9: no step of any request changes the store.
StoreNeverChanges == [][store' = store]_vars

SeveralRequestsServed == pc = "done" /\ prev.valid /\ store # {} /\ queries > 0

\* C10: engagement metrics succeeds for every store the data model permits,
\* also when a record among the top 20 has page_views_total > 0 and no name.
EngagementNeverFails ==
    (pc = "done" /\ call.endpoint = "engagement-metrics" /\ error # "OperationalError")
    => error = "none"

====
